---- MODULE Spec2Model ----
(***************************************************************************)
(* A model of scripts/rl_walk.py: the RLWalk control loop (main thread)    *)
(* and the imu_worker sampler (daemon thread) that share imu_queue.        *)
(*                                                                         *)
(* Representation.  Joint values are integers.  action_scale (0.25) and    *)
(* dof_vel_scale (0.05) are kept as the rationals 1/4 and 1/20; the values *)
(* the model draws for policy outputs and joint velocities are multiples   *)
(* of the denominators, so the products are exact.  Orientations are the   *)
(* four unit quaternions (x, y, z, w) with integer components that are     *)
(* closed under the half-turn Euler arithmetic of imu_worker: identity and *)
(* the half-turns about x, y and z; Euler angles are counted in half-turns *)
(* (units of pi, modulo 2).  None is the empty tuple.                      *)
(***************************************************************************)
EXTENDS Integers, Sequences, FiniteSets, TLC

\* ------------------------------------------------------------------ bounds
MaxIter    == 2    \* iterations of the while-True loop of run() that are explored
MaxSamples == 2    \* successful sensor reads of imu_worker that are explored
MaxFails   == 1    \* failed sensor reads of imu_worker that are explored
MaxHistIter == 17  \* iterations explored where the history window must fill

\* ------------------------------------------------------- program constants
num_obs            == 51
obs_history_size   == 15
NumJoints          == 15
NumDofs            == 13
linearVelocityScale == 2
AngularVelScaleDen == 4
DofVelScaleDen     == 20
dof_pos_scale      == 1
ActionScaleDen     == 4
ControlFreqArg     == 30
Unset              == 0

None == << >>

\* ----------------------------------------------------------------- vectors
Fill(n, v) == [j \in 1..n |-> v]

zeros(n) == Fill(n, 0)

VecAdd(a, b) == [j \in 1..Len(a) |-> a[j] + b[j]]

VecSub(a, b) == [j \in 1..Len(a) |-> a[j] - b[j]]

VecScale(a, num, den) == [j \in 1..Len(a) |-> (a[j] * num) \div den]

RECURSIVE concatenate(_)
concatenate(parts) ==
  IF parts = << >> THEN << >> ELSE Head(parts) \o concatenate(Tail(parts))

RECURSIVE flatten(_)
flatten(rows) ==
  IF rows = << >> THEN << >> ELSE Head(rows) \o flatten(Tail(rows))

\* xs[-n:] of Python for 0 < n
LastN(xs, n) ==
  IF Len(xs) <= n THEN xs ELSE SubSeq(xs, Len(xs) - n + 1, Len(xs))

\* ------------------------------------------------------------ orientations
QuatI == <<0, 0, 0, 1>>
QuatX == <<1, 0, 0, 0>>
QuatY == <<0, 1, 0, 0>>
QuatZ == <<0, 0, 1, 0>>

\* what self.imu.quaternion may return when the read succeeds
SensorQuats == {QuatI, QuatX}

\* R.from_quat(q).as_euler("xyz"), angles in half-turns
as_euler(q) ==
  CASE q = QuatI -> <<0, 0, 0>>
    [] q = QuatX -> <<1, 0, 0>>
    [] q = QuatY -> <<1, 0, 1>>
    [] q = QuatZ -> <<0, 0, 1>>

\* R.from_euler("xyz", e).as_quat(), angles in half-turns
from_euler(e) ==
  LET fy == (e[1] + e[3]) % 2      \* the y axis is reversed
      fx == (e[2] + e[3]) % 2      \* the x axis is reversed
  IN  CASE fx = 0 /\ fy = 0 -> QuatI
        [] fx = 0 /\ fy = 1 -> QuatX
        [] fx = 1 /\ fy = 0 -> QuatY
        [] fx = 1 /\ fy = 1 -> QuatZ

\* np.deg2rad, in half-turns
deg2rad(d) == d \div 180

\* the constructor arguments explored: every pair of settings of two of the
\* three switches occurs, and both pitch biases (degrees)
Configs ==
  { [debug_no_imu |-> FALSE, rma |-> FALSE, commands |-> FALSE, pitch_bias |-> 0],
    [debug_no_imu |-> FALSE, rma |-> TRUE,  commands |-> TRUE,  pitch_bias |-> 180],
    [debug_no_imu |-> TRUE,  rma |-> FALSE, commands |-> TRUE,  pitch_bias |-> 180],
    [debug_no_imu |-> TRUE,  rma |-> TRUE,  commands |-> FALSE, pitch_bias |-> 0] }

\* imu_worker, lines 88-97: the published orientation of a raw reading
FinalOrientation(raw, bias) ==
  LET euler   == as_euler(raw)
      axes    == <<euler[2], euler[3], euler[1]>>
      biased  == <<axes[1], axes[2] + deg2rad(bias), axes[3]>>
  IN  from_euler(biased)

\* ------------------------------------------------- joint orders, actuators
\* the rest pose hwi.init_pos (13 joints, hardware order)
InitPos == [j \in 1..NumDofs |-> 1 + (j % 2)]

\* self.mujoco_init_pos, line 76
mujoco_init_pos == InitPos \o <<0, 0>>

\* policy-order index j holds hardware-order index IsaacOrder[j]
IsaacOrder == <<6, 7, 8, 9, 10, 11, 12, 13, 14, 15, 1, 2, 3, 4, 5>>

mujoco_to_isaac(v) == [j \in 1..NumJoints |-> v[IsaacOrder[j]]]

isaac_to_mujoco(v) ==
  [k \in 1..NumJoints |-> v[CHOOSE j \in 1..NumJoints : IsaacOrder[j] = k]]

\* self.isaac_init_pos, line 77
isaac_init_pos == mujoco_to_isaac(mujoco_init_pos)

\* what hwi.get_present_positions() may return
Positions == {[j \in 1..NumDofs |-> InitPos[j] + j]}

\* what hwi.get_present_velocities() may return
Velocities == {[j \in 1..NumDofs |-> DofVelScaleDen * (NumDofs - j)]}

\* what policy.infer may return
PolicyOutputs == {zeros(NumJoints), [j \in 1..NumJoints |-> ActionScaleDen * (j % 2)]}

\* what adaptation_module.infer may return
Latents == {<<0>>, <<1>>}

\* how long lines 159-201 of one iteration may run, in milliseconds
Tooks == {10, 50}

\* what commands_client.get_command() may return
ClientCommands == {<<0, 0, 0>>, <<1, 0, AngularVelScaleDen>>}

\* quat_rotate_inverse(q, v) with q = (x, y, z, w)
quat_rotate_inverse(q, v) ==
  LET w   == q[4]
      dot == q[1] * v[1] + q[2] * v[2] + q[3] * v[3]
      crs == << q[2] * v[3] - q[3] * v[2],
                q[3] * v[1] - q[1] * v[3],
                q[1] * v[2] - q[2] * v[1] >>
  IN  [k \in 1..3 |-> v[k] * (2 * w * w - 1) - crs[k] * w * 2 + q[k] * dot * 2]

\* the single-pole low-pass blend of LowPassActionFilter, alpha = 1/2
LowPass(state, x) == [j \in 1..Len(x) |-> (state[j] + x[j]) \div 2]

\* ------------------------------------------------------------------- state
VARIABLES
  debug_no_imu,            \* self.debug_no_imu
  rma,                     \* self.rma
  self_commands,           \* self.commands (external commands enabled)
  pitch_bias,              \* self.pitch_bias, degrees
  control_freq,            \* self.control_freq, Unset until line 65 has run
  imu_queue,               \* self.imu_queue, Queue(maxsize=1)
  last_imu_data,           \* self.last_imu_data
  prev_action,             \* self.prev_action
  obs_history,             \* self.obs_history (RMA mode)
  action_filter,           \* the state of self.action_filter
  pc,                      \* position of the main thread
  orientation_quat,        \* local of get_obs
  commands,                \* local of run
  obs,                     \* local of run
  latent,                  \* local of run
  action,                  \* local of run
  i,                       \* local of run
  robot_computed_obs,      \* local of run
  took,                    \* local of run
  slept,                   \* argument of the last time.sleep of the loop
  since_start,             \* time.time() - start, in milliseconds
  work,                    \* how long lines 159-201 of the current iteration ran
  artifact,                \* the pickle.dump calls made on robot_computed_obs.pkl: the lists dumped
  hwi_state,               \* actuators: "off", "on", "pid_set", "settled"
  hwi_target,              \* last target sent with hwi.set_position_all
  spc,                     \* position of the imu_worker thread
  final_orientation_quat,  \* local of imu_worker
  \* history variables
  produced,                \* samples imu_worker has computed (line 97)
  read_failures,           \* failed reads of imu_worker
  queued_n,                \* which sample is in imu_queue (0: none)
  last_n,                  \* which sample last_imu_data is (0: the line-61 value)
  exit_reason,             \* why the loop was left: "none", "interrupt", "no_obs",
                           \* "adapt_error", "policy_error"
  raw_actions,             \* what policy.infer returned, call by call
  n_poll,                  \* calls of commands_client.get_command
  n_adapt,                 \* calls of adaptation_module.infer
  n_policy,                \* calls of policy.infer
  n_push,                  \* calls of action_filter.push
  n_sent,                  \* calls of hwi.set_position_all
  \* the environment explored
  iter_bound,              \* iterations of the loop that are explored
  engine                   \* "any": policy.infer answers anything of PolicyOutputs;
                           \* "counting": its k-th answer is the constant vector of k

config  == <<debug_no_imu, rma, self_commands, pitch_bias, iter_bound, engine>>
sampler == <<spc, final_orientation_quat, produced, read_failures>>
cell    == <<imu_queue, queued_n>>
owned   == <<last_imu_data, last_n, prev_action, obs_history, action_filter,
             orientation_quat, commands, obs, latent, action, i,
             robot_computed_obs, took, slept,
                 since_start, work, hwi_target>>
counts  == <<n_adapt, n_policy, n_push, n_sent, raw_actions, n_poll>>
control == <<pc, exit_reason, artifact, hwi_state, control_freq>>
vars    == <<config, sampler, cell, owned, counts, control>>

\* The constructor up to and including line 63 (Thread(...).start()), or up to
\* line 54 when debug_no_imu: the first state in which two threads exist.
Constructed(c) ==
  /\ debug_no_imu = c.debug_no_imu
  /\ rma = c.rma
  /\ self_commands = c.commands
  /\ pitch_bias = c.pitch_bias
  /\ control_freq = Unset
  /\ imu_queue = << >>
  /\ last_imu_data = IF debug_no_imu THEN None ELSE <<0, 0, 0, 0>>
  /\ prev_action = None
  /\ obs_history = IF rma THEN Fill(obs_history_size, zeros(num_obs)) ELSE None
  /\ action_filter = None
  /\ pc = "init"
  /\ orientation_quat = None
  /\ commands = None
  /\ obs = None
  /\ latent = None
  /\ action = None
  /\ i = 0
  /\ robot_computed_obs = << >>
  /\ took = 0
  /\ slept = 0
  /\ since_start = 0
  /\ work = 0
  /\ artifact = << >>
  /\ hwi_state = "off"
  /\ hwi_target = None
  /\ spc = IF debug_no_imu THEN "none" ELSE "read"
  /\ final_orientation_quat = None
  /\ produced = 0
  /\ read_failures = 0
  /\ queued_n = 0
  /\ last_n = 0
  /\ exit_reason = "none"
  /\ n_adapt = 0
  /\ n_policy = 0
  /\ n_push = 0
  /\ n_sent = 0
  /\ raw_actions = << >>
  /\ n_poll = 0

Init ==
  /\ \E c \in Configs : Constructed(c)
  /\ iter_bound = MaxIter
  /\ engine = "any"

\* ------------------------------------------------------ the sampler thread
\* daemon=True (line 63): the thread ends with the process
ProcessAlive == pc \notin {"done", "raised"}

\* ImuRead with the thread also storing what it read in self.last_imu_data,
\* the attribute get_imu_data keeps
ImuReadAndStore ==
  /\ ProcessAlive
  /\ spc = "read"
  /\ produced < MaxSamples
  /\ \E raw_orientation \in SensorQuats :
       final_orientation_quat' = FinalOrientation(raw_orientation, pitch_bias)
  /\ last_imu_data' = final_orientation_quat'
  /\ produced' = produced + 1
  /\ spc' = "put"
  /\ UNCHANGED read_failures
  /\ UNCHANGED <<last_n, prev_action, obs_history, action_filter, orientation_quat,
                 commands, obs, latent, action, i, robot_computed_obs, took, slept,
                 since_start, work, hwi_target>>
  /\ UNCHANGED <<config, cell, counts, control>>

\* lines 87-97, the read succeeds
ImuRead ==
  /\ ProcessAlive
  /\ spc = "read"
  /\ produced < MaxSamples
  /\ \E raw_orientation \in SensorQuats :
       final_orientation_quat' = FinalOrientation(raw_orientation, pitch_bias)
  /\ produced' = produced + 1
  /\ spc' = "put"
  /\ UNCHANGED read_failures
  /\ UNCHANGED <<config, cell, owned, counts, control>>

\* ImuReadFail without the try of lines 86-91: the exception ends the thread
ImuReadFailUncaught ==
  /\ ProcessAlive
  /\ spc = "read"
  /\ read_failures < MaxFails
  /\ read_failures' = read_failures + 1
  /\ spc' = "dead"
  /\ UNCHANGED <<final_orientation_quat, produced>>
  /\ UNCHANGED <<config, cell, owned, counts, control>>

\* lines 87-91, the read (or the conversion of what was read) raises:
\* print(e); continue
ImuReadFail ==
  /\ ProcessAlive
  /\ spc = "read"
  /\ read_failures < MaxFails
  /\ read_failures' = read_failures + 1
  /\ spc' = "read"
  /\ UNCHANGED <<final_orientation_quat, produced>>
  /\ UNCHANGED <<config, cell, owned, counts, control>>

\* ImuPut on a Queue() built without maxsize: put never waits
ImuPutUnbounded ==
  /\ ProcessAlive
  /\ spc = "put"
  /\ imu_queue' = Append(imu_queue, final_orientation_quat)
  /\ queued_n' = produced
  /\ spc' = "sleep"
  /\ UNCHANGED <<final_orientation_quat, produced, read_failures>>
  /\ UNCHANGED <<config, owned, counts, control>>

\* line 99: Queue.put blocks while the queue holds maxsize (1) items
ImuPut ==
  /\ ProcessAlive
  /\ spc = "put"
  /\ Len(imu_queue) < 1
  /\ imu_queue' = Append(imu_queue, final_orientation_quat)
  /\ queued_n' = produced
  /\ spc' = "sleep"
  /\ UNCHANGED <<final_orientation_quat, produced, read_failures>>
  /\ UNCHANGED <<config, owned, counts, control>>

\* line 100: reading self.control_freq before line 65 has assigned it raises
\* AttributeError outside the try of lines 86-91, which ends the thread
ImuSleep ==
  /\ ProcessAlive
  /\ spc = "sleep"
  /\ spc' = IF control_freq = Unset THEN "dead" ELSE "read"
  /\ UNCHANGED <<final_orientation_quat, produced, read_failures>>
  /\ UNCHANGED <<config, cell, owned, counts, control>>

\* --------------------------------------------------------- the main thread
\* __init__, lines 65-82
InitRest ==
  /\ pc = "init"
  /\ control_freq' = ControlFreqArg
  /\ prev_action' = zeros(NumJoints)
  /\ action_filter' = zeros(NumJoints)
  /\ pc' = "start"
  /\ UNCHANGED <<last_imu_data, last_n, obs_history, orientation_quat, commands,
                 obs, latent, action, i, robot_computed_obs, took, slept,
                 since_start, work, hwi_target>>
  /\ UNCHANGED <<exit_reason, artifact, hwi_state>>
  /\ UNCHANGED <<config, sampler, cell, counts>>

\* start, line 147
TurnOn ==
  /\ pc = "start"
  /\ hwi_state' = "on"
  /\ pc' = "set_pid"
  /\ UNCHANGED <<exit_reason, artifact, control_freq>>
  /\ UNCHANGED <<config, sampler, cell, owned, counts>>

\* SetPid with start returning right after line 148: run begins without the
\* time.sleep(2) of line 150
SetPidThenRun ==
  /\ pc = "set_pid"
  /\ hwi_state' = "pid_set"
  /\ pc' = "run"
  /\ UNCHANGED <<exit_reason, artifact, control_freq>>
  /\ UNCHANGED <<config, sampler, cell, owned, counts>>

\* start, line 148
SetPid ==
  /\ pc = "set_pid"
  /\ hwi_state' = "pid_set"
  /\ pc' = "settle"
  /\ UNCHANGED <<exit_reason, artifact, control_freq>>
  /\ UNCHANGED <<config, sampler, cell, owned, counts>>

\* start, line 150
Settle ==
  /\ pc = "settle"
  /\ hwi_state' = "settled"
  /\ pc' = "run"
  /\ UNCHANGED <<exit_reason, artifact, control_freq>>
  /\ UNCHANGED <<config, sampler, cell, owned, counts>>

\* run, lines 153-157
RunBegin ==
  /\ pc = "run"
  /\ i' = 0
  /\ robot_computed_obs' = << >>
  /\ commands' = <<0, 0, 0>>
  /\ pc' = "get_obs"
  /\ UNCHANGED <<last_imu_data, last_n, prev_action, obs_history, action_filter,
                 orientation_quat, obs, latent, action, took, slept,
                 since_start, work, hwi_target>>
  /\ UNCHANGED <<exit_reason, artifact, hwi_state, control_freq>>
  /\ UNCHANGED <<config, sampler, cell, counts>>

\* the positions of the main thread inside the while loop of run (lines 158-210)
Running == {"get_obs", "assemble", "check", "history", "adapt", "policy", "store",
            "push", "filtered", "actuate", "poll", "pace"}

\* get_imu_data with imu_queue.get() in place of imu_queue.get(False): it
\* waits for an item
get_imu_data_blocking ==
  /\ Len(imu_queue) > 0
  /\ last_imu_data' = Head(imu_queue)
  /\ imu_queue' = Tail(imu_queue)
  /\ last_n' = queued_n
  /\ queued_n' = 0
  /\ orientation_quat' = last_imu_data'

\* get_imu_data with `return None` in the except of lines 105-106: an empty
\* queue is answered with no orientation
get_imu_data_or_none ==
  /\ IF Len(imu_queue) > 0
       THEN /\ last_imu_data' = Head(imu_queue)
            /\ imu_queue' = Tail(imu_queue)
            /\ last_n' = queued_n
            /\ queued_n' = 0
            /\ orientation_quat' = last_imu_data'
       ELSE /\ UNCHANGED <<last_imu_data, imu_queue, last_n, queued_n>>
            /\ orientation_quat' = None

\* get_imu_data, lines 102-108: imu_queue.get(False) raises Empty on an empty
\* queue, which the except swallows
get_imu_data ==
  /\ IF Len(imu_queue) > 0
       THEN /\ last_imu_data' = Head(imu_queue)
            /\ imu_queue' = Tail(imu_queue)
            /\ last_n' = queued_n
            /\ queued_n' = 0
       ELSE UNCHANGED <<last_imu_data, imu_queue, last_n, queued_n>>
  /\ orientation_quat' = last_imu_data'

\* StartTimer with line 159 placed before the while: start is taken once, so
\* the time measured keeps running from the first iteration
StartTimerOnce == since_start' = since_start

\* run, line 159: start = time.time()
StartTimer == since_start' = 0

\* run line 159-160 and get_obs lines 111-115, IMU enabled
GetImuData ==
  /\ pc = "get_obs"
  /\ i < iter_bound
  /\ ~debug_no_imu
  /\ get_imu_data
  /\ IF orientation_quat' = None
       THEN obs' = None /\ pc' = "check"
       ELSE obs' = obs /\ pc' = "assemble"
  /\ StartTimer
  /\ UNCHANGED <<prev_action, obs_history, action_filter, commands, latent, action,
                 i, robot_computed_obs, took, slept, work, hwi_target>>
  /\ UNCHANGED <<exit_reason, artifact, hwi_state, control_freq>>
  /\ UNCHANGED <<config, sampler, counts>>

\* run line 159-160 and get_obs lines 116-117, IMU disabled
DebugOrientation ==
  /\ pc = "get_obs"
  /\ i < iter_bound
  /\ debug_no_imu
  /\ orientation_quat' = <<1, 0, 0, 0>>
  /\ pc' = "assemble"
  /\ StartTimer
  /\ UNCHANGED <<last_imu_data, last_n, prev_action, obs_history, action_filter,
                 commands, obs, latent, action, i, robot_computed_obs, took, slept,
                 work, hwi_target>>
  /\ UNCHANGED <<exit_reason, artifact, hwi_state, control_freq>>
  /\ UNCHANGED <<config, sampler, cell, counts>>

\* get_obs with the first two parts of line 136-144 exchanged: the command
\* comes before the projected gravity
get_obs_command_first(orientation, cmds, dof_pos, dof_vel, prev) ==
  LET pos_scaled == VecScale(VecSub(dof_pos, SubSeq(mujoco_init_pos, 1, NumDofs)),
                             dof_pos_scale, 1)
      vel_scaled == VecScale(dof_vel, 1, DofVelScaleDen)
      pos_isaac  == mujoco_to_isaac(concatenate(<<pos_scaled, <<0, 0>> >>))
      vel_isaac  == mujoco_to_isaac(concatenate(<<vel_scaled, <<0, 0>> >>))
      projected_gravity == quat_rotate_inverse(orientation, <<0, 0, -1>>)
  IN  concatenate(<<cmds, projected_gravity, pos_isaac, vel_isaac, prev>>)

\* get_obs, lines 119-144
get_obs(orientation, cmds, dof_pos, dof_vel, prev) ==
  LET pos_scaled == VecScale(VecSub(dof_pos, SubSeq(mujoco_init_pos, 1, NumDofs)),
                             dof_pos_scale, 1)
      vel_scaled == VecScale(dof_vel, 1, DofVelScaleDen)
      pos_isaac  == mujoco_to_isaac(concatenate(<<pos_scaled, <<0, 0>> >>))
      vel_isaac  == mujoco_to_isaac(concatenate(<<vel_scaled, <<0, 0>> >>))
      projected_gravity == quat_rotate_inverse(orientation, <<0, 0, -1>>)
  IN  concatenate(<<projected_gravity, cmds, pos_isaac, vel_isaac, prev>>)

Assemble ==
  /\ pc = "assemble"
  /\ \E dof_pos \in Positions, dof_vel \in Velocities :
       obs' = get_obs(orientation_quat, commands, dof_pos, dof_vel, prev_action)
  /\ pc' = "check"
  /\ UNCHANGED <<last_imu_data, last_n, prev_action, obs_history, action_filter,
                 orientation_quat, commands, latent, action, i, robot_computed_obs,
                 took, slept,
                 since_start, work, hwi_target>>
  /\ UNCHANGED <<exit_reason, artifact, hwi_state, control_freq>>
  /\ UNCHANGED <<config, sampler, cell, counts>>

\* run, lines 161-163
Record ==
  /\ pc = "check"
  /\ IF obs = None
       THEN /\ exit_reason' = "no_obs"
            /\ pc' = "flush"
            /\ UNCHANGED robot_computed_obs
       ELSE /\ robot_computed_obs' = Append(robot_computed_obs, obs)
            /\ pc' = IF rma THEN "history" ELSE "policy"
            /\ UNCHANGED exit_reason
  /\ UNCHANGED <<last_imu_data, last_n, prev_action, obs_history, action_filter,
                 orientation_quat, commands, obs, latent, action, i, took, slept,
                 since_start, work, hwi_target>>
  /\ UNCHANGED <<artifact, hwi_state, control_freq>>
  /\ UNCHANGED <<config, sampler, cell, counts>>

\* History with the slice [: obs_history_size] in place of [-obs_history_size :]
HistoryKeepsOldest ==
  /\ pc = "history"
  /\ obs_history' = SubSeq(Append(obs_history, obs), 1, obs_history_size)
  /\ pc' = "adapt"
  /\ UNCHANGED <<last_imu_data, last_n, prev_action, action_filter,
                 orientation_quat, commands, obs, latent, action, i,
                 robot_computed_obs, took, slept,
                 since_start, work, hwi_target>>
  /\ UNCHANGED <<exit_reason, artifact, hwi_state, control_freq>>
  /\ UNCHANGED <<config, sampler, cell, counts>>

\* run, lines 166-167
History ==
  /\ pc = "history"
  /\ obs_history' = LastN(Append(obs_history, obs), obs_history_size)
  /\ pc' = "adapt"
  /\ UNCHANGED <<last_imu_data, last_n, prev_action, action_filter,
                 orientation_quat, commands, obs, latent, action, i,
                 robot_computed_obs, took, slept,
                 since_start, work, hwi_target>>
  /\ UNCHANGED <<exit_reason, artifact, hwi_state, control_freq>>
  /\ UNCHANGED <<config, sampler, cell, counts>>

\* run, lines 168-171, the adaptation module answers
Adapt ==
  /\ pc = "adapt"
  /\ latent' \in Latents
  /\ n_adapt' = n_adapt + 1
  /\ pc' = "policy"
  /\ UNCHANGED <<last_imu_data, last_n, prev_action, obs_history, action_filter,
                 orientation_quat, commands, obs, action, i, robot_computed_obs,
                 took, slept,
                 since_start, work, hwi_target>>
  /\ UNCHANGED <<n_policy, n_push, n_sent, raw_actions, n_poll>>
  /\ UNCHANGED <<exit_reason, artifact, hwi_state, control_freq>>
  /\ UNCHANGED <<config, sampler, cell>>

\* run, line 168: adaptation_module.infer raises; no handler of run catches
\* it (line 211 catches KeyboardInterrupt only), so it leaves run
AdaptFail ==
  /\ pc = "adapt"
  /\ n_adapt' = n_adapt + 1
  /\ exit_reason' = "adapt_error"
  /\ pc' = "raised"
  /\ UNCHANGED <<n_policy, n_push, n_sent, raw_actions, n_poll>>
  /\ UNCHANGED <<artifact, hwi_state, control_freq>>
  /\ UNCHANGED <<config, sampler, cell, owned>>

\* what policy.infer may answer to this call
PolicyAnswers ==
  IF engine = "any" THEN PolicyOutputs
  ELSE {Fill(NumJoints, ActionScaleDen * (n_policy + 1))}

\* run, lines 172 and 174, the policy answers
Policy ==
  /\ pc = "policy"
  /\ action' \in PolicyAnswers
  /\ n_policy' = n_policy + 1
  /\ pc' = "store"
  /\ UNCHANGED <<last_imu_data, last_n, prev_action, obs_history, action_filter,
                 orientation_quat, commands, obs, latent, i, robot_computed_obs,
                 took, slept,
                 since_start, work, hwi_target>>
  /\ raw_actions' = Append(raw_actions, action')
  /\ UNCHANGED <<n_adapt, n_push, n_sent, n_poll>>
  /\ UNCHANGED <<exit_reason, artifact, hwi_state, control_freq>>
  /\ UNCHANGED <<config, sampler, cell>>

\* PolicyFail with the call wrapped in a handler that tries again
PolicyFailRetried ==
  /\ pc = "policy"
  /\ n_policy' = n_policy + 1
  /\ exit_reason' = "policy_error"
  /\ pc' = "policy"
  /\ UNCHANGED <<n_adapt, n_push, n_sent, raw_actions, n_poll>>
  /\ UNCHANGED <<artifact, hwi_state, control_freq>>
  /\ UNCHANGED <<config, sampler, cell, owned>>

\* run, lines 172 and 174: policy.infer raises and the exception leaves run
PolicyFail ==
  /\ pc = "policy"
  /\ n_policy' = n_policy + 1
  /\ exit_reason' = "policy_error"
  /\ pc' = "raised"
  /\ UNCHANGED <<n_adapt, n_push, n_sent, raw_actions, n_poll>>
  /\ UNCHANGED <<artifact, hwi_state, control_freq>>
  /\ UNCHANGED <<config, sampler, cell, owned>>

\* StoreAndScale with lines 176 and 178 exchanged: the scaled, offset action
\* is what is kept
StoreAfterScale ==
  /\ pc = "store"
  /\ action' = VecAdd(VecScale(action, 1, ActionScaleDen), isaac_init_pos)
  /\ prev_action' = action'
  /\ pc' = "push"
  /\ UNCHANGED <<last_imu_data, last_n, obs_history, action_filter,
                 orientation_quat, commands, obs, latent, i, robot_computed_obs,
                 took, slept,
                 since_start, work, hwi_target>>
  /\ UNCHANGED <<exit_reason, artifact, hwi_state, control_freq>>
  /\ UNCHANGED <<config, sampler, cell, counts>>

\* run, lines 176-178
StoreAndScale ==
  /\ pc = "store"
  /\ prev_action' = action
  /\ action' = VecAdd(VecScale(action, 1, ActionScaleDen), isaac_init_pos)
  /\ pc' = "push"
  /\ UNCHANGED <<last_imu_data, last_n, obs_history, action_filter,
                 orientation_quat, commands, obs, latent, i, robot_computed_obs,
                 took, slept,
                 since_start, work, hwi_target>>
  /\ UNCHANGED <<exit_reason, artifact, hwi_state, control_freq>>
  /\ UNCHANGED <<config, sampler, cell, counts>>

\* run, line 180
Push ==
  /\ pc = "push"
  /\ action_filter' = LowPass(action_filter, action)
  /\ n_push' = n_push + 1
  /\ pc' = "filtered"
  /\ UNCHANGED <<last_imu_data, last_n, prev_action, obs_history,
                 orientation_quat, commands, obs, latent, action, i,
                 robot_computed_obs, took, slept,
                 since_start, work, hwi_target>>
  /\ UNCHANGED <<n_adapt, n_policy, n_sent, raw_actions, n_poll>>
  /\ UNCHANGED <<exit_reason, artifact, hwi_state, control_freq>>
  /\ UNCHANGED <<config, sampler, cell>>

\* GetFiltered without the read of line 181: the unfiltered action goes on to
\* the actuators
GetFilteredSkipped ==
  /\ pc = "filtered"
  /\ pc' = "actuate"
  /\ UNCHANGED owned
  /\ UNCHANGED <<exit_reason, artifact, hwi_state, control_freq>>
  /\ UNCHANGED <<config, sampler, cell, counts>>

\* run, line 181
GetFiltered ==
  /\ pc = "filtered"
  /\ action' = action_filter
  /\ pc' = "actuate"
  /\ UNCHANGED <<last_imu_data, last_n, prev_action, obs_history, action_filter,
                 orientation_quat, commands, obs, latent, i, robot_computed_obs,
                 took, slept,
                 since_start, work, hwi_target>>
  /\ UNCHANGED <<exit_reason, artifact, hwi_state, control_freq>>
  /\ UNCHANGED <<config, sampler, cell, counts>>

\* run, lines 183-186; the action dict is kept as the vector in hardware order
Actuate ==
  /\ pc = "actuate"
  /\ hwi_target' = isaac_to_mujoco(action)
  /\ n_sent' = n_sent + 1
  /\ pc' = "poll"
  /\ UNCHANGED <<last_imu_data, last_n, prev_action, obs_history, action_filter,
                 orientation_quat, commands, obs, latent, action, i,
                 robot_computed_obs, took, slept, since_start, work>>
  /\ UNCHANGED <<n_adapt, n_policy, n_push, raw_actions, n_poll>>
  /\ UNCHANGED <<exit_reason, artifact, hwi_state, control_freq>>
  /\ UNCHANGED <<config, sampler, cell>>

\* run, lines 189-198: the polled command times the per-axis gains
ScaleCommand(c) ==
  << c[1] * linearVelocityScale,
     c[2] * linearVelocityScale,
     c[3] \div AngularVelScaleDen >>

\* Poll without the test of line 188: the client is polled whether or not
\* commands are enabled
PollAlways ==
  /\ pc = "poll"
  /\ \E c \in ClientCommands : commands' = ScaleCommand(c)
  /\ n_poll' = n_poll + 1
  /\ pc' = "pace"
  /\ UNCHANGED <<last_imu_data, last_n, prev_action, obs_history, action_filter,
                 orientation_quat, obs, latent, action, i, robot_computed_obs,
                 took, slept, since_start, work, hwi_target>>
  /\ UNCHANGED <<n_adapt, n_policy, n_push, n_sent, raw_actions>>
  /\ UNCHANGED <<exit_reason, artifact, hwi_state, control_freq>>
  /\ UNCHANGED <<config, sampler, cell>>

\* run, lines 188-199
Poll ==
  /\ pc = "poll"
  /\ IF self_commands
       THEN /\ \E c \in ClientCommands : commands' = ScaleCommand(c)
            /\ n_poll' = n_poll + 1
       ELSE UNCHANGED <<commands, n_poll>>
  /\ pc' = "pace"
  /\ UNCHANGED <<last_imu_data, last_n, prev_action, obs_history, action_filter,
                 orientation_quat, obs, latent, action, i, robot_computed_obs,
                 took, slept,
                 since_start, work, hwi_target>>
  /\ UNCHANGED <<n_adapt, n_policy, n_push, n_sent, raw_actions>>
  /\ UNCHANGED <<exit_reason, artifact, hwi_state, control_freq>>
  /\ UNCHANGED <<config, sampler, cell>>

\* 1 / self.control_freq, in milliseconds
TargetPeriod == 1000 \div control_freq

Max(a, b) == IF a >= b THEN a ELSE b

\* run, lines 201-210
Pace ==
  /\ pc = "pace"
  /\ i' = i + 1
  /\ work' \in Tooks
  /\ took' = since_start + work'
  /\ slept' = Max(TargetPeriod - took', 0)
  /\ since_start' = took' + slept'
  /\ pc' = "get_obs"
  /\ UNCHANGED <<last_imu_data, last_n, prev_action, obs_history, action_filter,
                 orientation_quat, commands, obs, latent, action,
                 robot_computed_obs, hwi_target>>
  /\ UNCHANGED <<exit_reason, artifact, hwi_state, control_freq>>
  /\ UNCHANGED <<config, sampler, cell, counts>>

\* KeyboardInterrupt as a stop request that is only noted: the iteration
\* goes on
KeyboardInterruptNoted ==
  /\ pc \in Running
  /\ exit_reason = "none"
  /\ exit_reason' = "interrupt"
  /\ UNCHANGED <<pc, artifact, hwi_state, control_freq>>
  /\ UNCHANGED <<config, sampler, cell, owned, counts>>

\* run, lines 211-212: KeyboardInterrupt is raised in the main thread wherever
\* it is inside the try, and the handler passes to line 214
KeyboardInterrupt ==
  /\ pc \in Running
  /\ exit_reason' = "interrupt"
  /\ pc' = "flush"
  /\ UNCHANGED <<artifact, hwi_state, control_freq>>
  /\ UNCHANGED <<config, sampler, cell, owned, counts>>

\* run, lines 214-215
Flush ==
  /\ pc = "flush"
  /\ artifact' = Append(artifact, robot_computed_obs)
  /\ pc' = "done"
  /\ UNCHANGED <<exit_reason, hwi_state, control_freq>>
  /\ UNCHANGED <<config, sampler, cell, owned, counts>>

Next ==
  \/ ImuRead \/ ImuReadFail \/ ImuPut \/ ImuSleep
  \/ InitRest \/ TurnOn \/ SetPid \/ Settle \/ RunBegin
  \/ GetImuData \/ DebugOrientation \/ Assemble \/ Record
  \/ History \/ Adapt \/ AdaptFail \/ Policy \/ PolicyFail
  \/ StoreAndScale \/ Push \/ GetFiltered \/ Actuate \/ Poll \/ Pace
  \/ KeyboardInterrupt \/ Flush

Spec == Init /\ [][Next]_vars

\* The control loop alone (IMU disabled, RMA mode, no external commands) for
\* enough iterations to fill the history window and evict from it, against
\* an inference engine whose every answer is distinct.
InitHist ==
  /\ Constructed([debug_no_imu |-> TRUE, rma |-> TRUE, commands |-> FALSE,
                  pitch_bias |-> 0])
  /\ iter_bound = MaxHistIter
  /\ engine = "counting"

NextHist ==
  \/ InitRest \/ TurnOn \/ SetPid \/ Settle \/ RunBegin
  \/ DebugOrientation \/ Assemble \/ Record
  \/ History \/ Adapt \/ AdaptFail \/ Policy \/ PolicyFail
  \/ StoreAndScale \/ Push \/ GetFiltered \/ Actuate \/ Poll \/ Pace
  \/ KeyboardInterrupt \/ Flush

SpecHist == InitHist /\ [][NextHist]_vars

\* ================================================================== claims

\* C1: the orientation the scheduler takes out of the cell is the most recent
\* sample the sampler has produced: whenever a step empties imu_queue, the
\* sample it removes is the last one imu_worker has computed.
C1_TakenSampleIsNewest ==
  [][(Len(imu_queue) > 0 /\ Len(imu_queue') = 0) => queued_n = produced]_vars

\* C2: with the IMU enabled, get_obs goes on to assemble an observation only
\* from an orientation the sampler has published, never from the value
\* last_imu_data was constructed with.
C2_NoObservationFromPlaceholder ==
  (~debug_no_imu /\ pc = "assemble") => last_n > 0

\* C3: whenever run has been left, by returning or by an exception, the
\* recorded trace has been written to the session artifact.
C3_FlushOnEveryExit ==
  pc \in {"done", "raised"} => artifact = <<robot_computed_obs>>

\* C4 as claimed: an interrupt lets the iteration in progress finish, so when
\* the loop has been left by an interrupt every recorded observation has had
\* its inference, its filter push and its actuation, and i counts it.
C4_InterruptWaitsForIterationEnd ==
  exit_reason = "interrupt" =>
    /\ n_policy = Len(robot_computed_obs)
    /\ n_push = Len(robot_computed_obs)
    /\ n_sent = Len(robot_computed_obs)
    /\ i = Len(robot_computed_obs)

\* C4 as amended: an interrupt takes effect at the step the iteration has
\* reached. The step that delivers it goes from inside the loop straight to
\* the flush, the only step the main thread takes after it is the flush, and
\* neither it nor any later step executes a step of the iteration: the
\* scheduler's data and the call counts stay as they were.
C4_InterruptAbortsIteration ==
  [][exit_reason' = "interrupt" =>
       /\ UNCHANGED <<owned, counts>>
       /\ exit_reason = "none" => (pc \in Running /\ pc' = "flush")
       /\ (exit_reason = "interrupt" /\ pc' # pc) => (pc = "flush" /\ pc' = "done")]_vars

\* an interrupt that came between recording the observation and actuating
\* has been followed by the flush of the trace as it stood
C4_Witness ==
  /\ exit_reason = "interrupt"
  /\ pc = "done"
  /\ n_sent < Len(robot_computed_obs)
  /\ artifact = <<robot_computed_obs>>

\* C5: a failed sensor read leaves imu_worker alive and back at the read
\* (not at the sleep), and publishes nothing: the cell and the sampler's last
\* computed sample are unchanged.
C5_ReadFailureRetriesAtOnce ==
  [][read_failures' > read_failures =>
       /\ spc = "read" /\ spc' = "read"
       /\ UNCHANGED <<imu_queue, queued_n, final_orientation_quat, produced>>]_vars

\* the sampler has published a sample after a failed read
C5_Witness ==
  /\ read_failures = MaxFails
  /\ spc = "sleep"
  /\ queued_n = produced
  /\ Len(imu_queue) = 1

\* C6: whenever the scheduler is at its orientation read, the read can be
\* taken at once, whatever the cell holds and wherever the sampler is.
C6_ReadNeverWaits ==
  (pc = "get_obs" /\ ~debug_no_imu /\ i < iter_bound) => ENABLED GetImuData

\* the read has completed on a cell that never held a sample, while the
\* sampler is retrying a failed read
C6_Witness ==
  /\ pc = "assemble"
  /\ ~debug_no_imu
  /\ last_n = 0
  /\ Len(imu_queue) = 0
  /\ spc = "read"
  /\ read_failures > 0

\* C7: an inference failure is fatal and is not retried. Once a call of the
\* adaptation module or of the policy has failed, run has been left by the
\* exception, no further inference call is made and no further target is
\* sent; and when it was the adaptation module that failed, the policy was
\* not called in that iteration (it has been called once less).
C7_InferenceFailureIsFatal ==
  /\ [](exit_reason \in {"adapt_error", "policy_error"} =>
          /\ pc = "raised"
          /\ exit_reason = "adapt_error" =>
               (n_policy = n_adapt - 1 /\ n_sent = n_adapt - 1))
  /\ [][(exit_reason \in {"adapt_error", "policy_error"}) =>
          UNCHANGED <<n_adapt, n_policy, n_push, n_sent, hwi_target>>]_vars

\* the adaptation module has failed in an iteration after the first
C7_Witness ==
  /\ exit_reason = "adapt_error"
  /\ pc = "raised"
  /\ n_sent >= 1
  /\ n_policy = n_sent

\* C8: when run has been left, the session artifact holds the recorded
\* observations, one per iteration counted by i.
C8_OneObservationPerIteration ==
  pc \in {"done", "raised"} =>
    /\ artifact = <<robot_computed_obs>>
    /\ Len(robot_computed_obs) = i

\* the previous-action part of an observation (its last NumJoints entries)
PrevActionPart(o) == SubSeq(o, num_obs - NumJoints + 1, num_obs)

\* C9: the previous-action part of the first observation is the zero vector,
\* and that of every later observation is what policy.infer returned in the
\* iteration before, as returned.
C9_PrevActionIsRawPolicyOutput ==
  \A k \in 1..Len(robot_computed_obs) :
    PrevActionPart(robot_computed_obs[k]) =
      IF k = 1 THEN zeros(NumJoints) ELSE raw_actions[k - 1]

\* a second observation carries a policy output that scaling and filtering
\* would both have changed
C9_Witness ==
  /\ Len(robot_computed_obs) >= 2
  /\ PrevActionPart(robot_computed_obs[2]) # zeros(NumJoints)
  /\ PrevActionPart(robot_computed_obs[2]) # mujoco_to_isaac(hwi_target)
  /\ PrevActionPart(robot_computed_obs[2]) # action_filter

\* C10: in RMA mode the history handed to the adaptation module has
\* obs_history_size entries: in the k-th iteration, the zero entries that are
\* left followed by the k observations so far, and from the
\* obs_history_size-th iteration on the obs_history_size latest observations,
\* oldest first.
C10_HistoryWindow ==
  pc = "adapt" =>
    LET k == Len(robot_computed_obs)
        N == obs_history_size
    IN  /\ Len(obs_history) = N
        /\ Len(flatten(obs_history)) = N * num_obs
        /\ obs_history =
             IF k < N
               THEN Fill(N - k, zeros(num_obs)) \o robot_computed_obs
               ELSE SubSeq(robot_computed_obs, k - N + 1, k)

\* the window is full of real observations and the first ones are gone
C10_Witness ==
  /\ pc = "adapt"
  /\ Len(robot_computed_obs) > obs_history_size
  /\ obs_history[1] = robot_computed_obs[Len(robot_computed_obs) - obs_history_size + 1]
  /\ obs_history[1] # robot_computed_obs[1]

\* run, line 178: the policy answer a, scaled and offset
ScaledAction(a) == VecAdd(VecScale(a, 1, ActionScaleDen), isaac_init_pos)

\* the state of action_filter after line 180 ran n times, on the answers the
\* policy gave in iterations 1..n
RECURSIVE FilterAfter(_)
FilterAfter(n) ==
  IF n = 0 THEN zeros(NumJoints)
  ELSE LowPass(FilterAfter(n - 1), ScaledAction(raw_actions[n]))

\* C11: in iteration i + 1 the stages run once each and in the order
\* observation, inference, filter push, filter read, actuator command: at
\* every position of the loop the number of observations recorded, of policy
\* calls, of pushes and of commands sent is i or i + 1 according to whether
\* the stage lies behind; the filter holds exactly one push per policy answer
\* and the n-th command sent is the filter output after the n-th push.
C11_StagesOnceInOrder ==
  /\ pc \in Running =>
       /\ Len(robot_computed_obs) =
            IF pc \in {"get_obs", "assemble", "check"} THEN i ELSE i + 1
       /\ rma => n_adapt =
            IF pc \in {"get_obs", "assemble", "check", "history", "adapt"}
              THEN i ELSE i + 1
       /\ n_policy =
            IF pc \in {"store", "push", "filtered", "actuate", "poll", "pace"}
              THEN i + 1 ELSE i
       /\ n_push = IF pc \in {"filtered", "actuate", "poll", "pace"} THEN i + 1 ELSE i
       /\ n_sent = IF pc \in {"poll", "pace"} THEN i + 1 ELSE i
  /\ pc # "raised" => Len(raw_actions) = n_policy
  /\ pc # "init" => action_filter = FilterAfter(n_push)
  /\ n_sent >= 1 => hwi_target = isaac_to_mujoco(FilterAfter(n_sent))

C11_Witness ==
  /\ pc = "get_obs" /\ i = 2 /\ n_sent = 2
  /\ raw_actions[1] # raw_actions[2]
  /\ hwi_target = isaac_to_mujoco(FilterAfter(2))
  /\ hwi_target # isaac_to_mujoco(ScaledAction(raw_actions[2]))

\* C12: whenever the main thread is inside the loop of run, or an
\* observation was recorded, an inference call made or a target sent, the
\* actuators have been turned on, their gains set and the settle delay of
\* start has elapsed.
C12_StartingPrecedesRunning ==
  (\/ pc \in Running
   \/ Len(robot_computed_obs) > 0
   \/ n_adapt > 0 \/ n_policy > 0 \/ n_push > 0 \/ n_sent > 0)
    => hwi_state = "settled"

C12_Witness == pc = "poll" /\ n_sent = 1 /\ hwi_state = "settled"

\* C13: the step that ends an iteration sleeps the target period minus the
\* time that iteration's own work took, and zero when the work took the whole
\* period or more; the sleep is never negative, whatever earlier iterations
\* took, and after it the loop is at the top of the next iteration.
C13_SleepIsRemainderOfOwnPeriod ==
  [][(pc = "pace" /\ pc' # pc /\ exit_reason' = "none") =>
       /\ pc' = "get_obs" /\ i' = i + 1
       /\ took' = work'
       /\ slept' >= 0
       /\ slept' = IF work' >= TargetPeriod THEN 0 ELSE TargetPeriod - work']_vars

C13_Witness ==
  /\ pc = "assemble" /\ i = 1 /\ exit_reason = "none"
  /\ work > TargetPeriod /\ took = work /\ slept = 0

\* C14: a step of imu_worker changes nothing the main thread owns (the last
\* orientation kept, previous action, observation history, filter state,
\* recorded observations, the locals and counters of run, the artifact), and
\* a step of the main thread changes nothing imu_worker owns: imu_queue is
\* the only state both threads change.
C14_SamplerLeavesLoopStateAlone ==
  [][/\ (sampler' # sampler) => UNCHANGED <<owned, counts, control>>
     /\ (<<owned, counts, control>>' # <<owned, counts, control>>)
          => UNCHANGED sampler]_vars

C14_Witness ==
  /\ spc = "sleep" /\ queued_n = 2 /\ Len(imu_queue) = 1
  /\ pc = "policy" /\ i = 1 /\ n_push = 1 /\ last_n = 1

\* get_obs, lines 136-144: the command part of an observation
CommandPart(o) == SubSeq(o, 4, 6)

\* C15: with commands disabled every observation carries the command
\* (0, 0, 0) and the client is never polled; with commands enabled the
\* client is polled once per iteration, after that iteration's target was
\* sent, and nothing else changes the command, so that the observation of
\* the next iteration carries the scaled value polled in this one; the first
\* observation carries (0, 0, 0) in both cases.
C15_CommandPolledForNextObservation ==
  /\ [](~self_commands =>
          /\ n_poll = 0
          /\ \A k \in 1..Len(robot_computed_obs) :
               CommandPart(robot_computed_obs[k]) = <<0, 0, 0>>)
  /\ [](Len(robot_computed_obs) >= 1 =>
          CommandPart(robot_computed_obs[1]) = <<0, 0, 0>>)
  /\ [][/\ Len(robot_computed_obs') = Len(robot_computed_obs) + 1 =>
            CommandPart(robot_computed_obs'[Len(robot_computed_obs')]) = commands
        /\ (commands' # commands \/ n_poll' # n_poll) =>
            \/ pc = "run" /\ commands' = <<0, 0, 0>> /\ n_poll' = n_poll
            \/ /\ pc = "poll" /\ self_commands
               /\ n_sent = i + 1 /\ n_poll = i /\ n_poll' = i + 1
               /\ \E c \in ClientCommands : commands' = ScaleCommand(c)
        /\ (pc = "poll" /\ pc' = "pace" /\ self_commands) => n_poll' = n_poll + 1]_vars

C15_Witness ==
  /\ self_commands /\ pc = "get_obs" /\ i = 2 /\ n_poll = 2
  /\ Len(robot_computed_obs) = 2
  /\ CommandPart(robot_computed_obs[1]) = <<0, 0, 0>>
  /\ CommandPart(robot_computed_obs[2]) = ScaleCommand(<<1, 0, AngularVelScaleDen>>)
  /\ commands = <<0, 0, 0>>

\* C16: every observation recorded has exactly 51 entries, and the one just
\* assembled is, in this order: the gravity vector in the body frame (3), the
\* command (3), the 15 joint positions relative to the initial pose, scaled
\* and in policy order with zero for the two joints the hardware does not
\* report, the 15 joint velocities scaled and ordered the same way, and the
\* previous action (15).
C16_ObservationLayout ==
  /\ \A k \in 1..Len(robot_computed_obs) : Len(robot_computed_obs[k]) = num_obs
  /\ (pc = "check" /\ obs # None) =>
       /\ Len(obs) = num_obs
       /\ SubSeq(obs, 1, 3) = quat_rotate_inverse(orientation_quat, <<0, 0, -1>>)
       /\ SubSeq(obs, 4, 6) = commands
       /\ \E dof_pos \in Positions, dof_vel \in Velocities :
            \A j \in 1..NumJoints :
              LET m == IsaacOrder[j] IN
                /\ obs[6 + j] =
                     IF m <= NumDofs
                       THEN (dof_pos[m] - mujoco_init_pos[m]) * dof_pos_scale ELSE 0
                /\ obs[6 + NumJoints + j] =
                     IF m <= NumDofs THEN dof_vel[m] \div DofVelScaleDen ELSE 0
       /\ SubSeq(obs, 6 + 2 * NumJoints + 1, 6 + 3 * NumJoints) = prev_action

C16_Witness ==
  /\ pc = "check" /\ i = 1 /\ Len(obs) = num_obs
  /\ SubSeq(obs, 1, 3) # SubSeq(obs, 4, 6)
  /\ commands # <<0, 0, 0>> /\ prev_action # zeros(NumJoints)

\* C17: a read of get_imu_data that finds imu_queue empty returns the
\* orientation kept from the last read and leaves it as it was; from the
\* second iteration on that is the orientation the previous iteration got,
\* and the loop goes on to assemble its observation. A failed sensor read
\* changes neither the queue nor the orientation kept.
C17_EmptyCellRepeatsLastOrientation ==
  [][/\ (pc = "get_obs" /\ pc' # pc /\ exit_reason' = "none"
           /\ ~debug_no_imu /\ Len(imu_queue) = 0) =>
          /\ orientation_quat' = last_imu_data
          /\ UNCHANGED <<last_imu_data, last_n, imu_queue>>
          /\ i >= 1 => (orientation_quat' = orientation_quat /\ pc' = "assemble")
     /\ (read_failures' # read_failures) =>
          UNCHANGED <<imu_queue, queued_n, last_imu_data, orientation_quat, pc>>]_vars

C17_Witness ==
  /\ ~debug_no_imu /\ pc = "assemble" /\ i = 1 /\ exit_reason = "none"
  /\ produced = 1 /\ last_n = 1 /\ queued_n = 0 /\ spc = "read"
  /\ read_failures = MaxFails
  /\ Len(robot_computed_obs) = 1
  /\ SubSeq(robot_computed_obs[1], 1, 3) = <<0, 0, -1>>
  /\ orientation_quat = QuatI /\ last_imu_data = QuatI

\* C18: imu_worker never reads an attribute the constructor has not assigned
\* yet: whenever it is about to read self.control_freq (line 100) the
\* attribute is set, and the thread never ends on an error raised outside
\* the try of lines 86-91.
C18_SamplerReadsOnlyAssignedAttributes ==
  /\ spc = "sleep" => control_freq # Unset
  /\ spc # "dead"

\* C19: imu_queue never holds more than one sample, and the one it holds is
\* newer than every sample get_imu_data has returned; the sample
\* get_imu_data keeps is never replaced by an older one, and each sample
\* taken from the queue is strictly newer than the one kept before, so that
\* no sample is delivered twice as new.
C19_SamplesDeliveredInOrder ==
  /\ [](Len(imu_queue) <= 1)
  /\ [](Len(imu_queue) = 1 => (last_n < queued_n /\ queued_n <= produced))
  /\ [][/\ last_n' >= last_n
        /\ (Len(imu_queue') < Len(imu_queue)) =>
             /\ last_n' = queued_n /\ last_n' > last_n
             /\ last_imu_data' = Head(imu_queue)
             /\ imu_queue' = << >>
        /\ (last_imu_data' # last_imu_data \/ last_n' # last_n) =>
             Len(imu_queue') < Len(imu_queue)]_vars

C19_Witness ==
  /\ pc = "assemble" /\ i = 1 /\ last_n = 2 /\ produced = 2
  /\ Len(imu_queue) = 0 /\ orientation_quat = last_imu_data

====
